---------------------------- MODULE Spec2Model ----------------------------
(***************************************************************************)
(* Model of the due-diligence report generator (script 2 of the            *)
(* repository): template validation, placeholder substitution, photo       *)
(* preparation and pagination, output naming, the interactive wizard and   *)
(* the letterbox geometry.                                                 *)
(*                                                                         *)
(* Text is a sequence of characters.  A character is a one-element string; *)
(* a placeholder key name, a photo token name and the photo section        *)
(* keyword are each one atomic character (a name is never split).  The     *)
(* three keys of PLACEHOLDER_KEYS are written "customer", "industry" and   *)
(* "address" (the names of the command line options that carry them).      *)
(***************************************************************************)
EXTENDS Integers, Sequences, FiniteSets, TLC

VARIABLES
    pc,        \* position of the single thread of control
    caller,    \* who called generate_report: "main" or "interactive"
    tpl,       \* the template file: [exists, doc]
    fields,    \* generate_report's argument `fields`: key -> text
    photos,    \* generate_report's argument `photos`: list of photo files
    env,       \* [pil_ok, want_pdf]: PIL_OK and the want_pdf argument
    doc,       \* the in-memory Document
    cache,     \* files of <out>/_photo_cache: base name -> content
    ins,       \* insert_photos' locals: [processed, anchor, placed]
    fs,        \* files of the output directory: path -> writer
    out,       \* outcome of the current run: [error, missing, path]
    nruns,     \* number of generate_report calls so far
    wiz,       \* interactive()'s locals
    lb,        \* _letterbox_image's input and result
    args       \* main()'s `args`, the parsed command line

vars == <<pc, caller, tpl, fields, photos, env, doc, cache, ins, fs, out, nruns, wiz, lb, args>>

-----------------------------------------------------------------------------
(* Constants of the program *)

PLACEHOLDER_KEYS == <<"customer", "industry", "address">>
Keys == {PLACEHOLDER_KEYS[i] : i \in 1..Len(PLACEHOLDER_KEYS)}

\* the names inside the three PHOTO_TOKENS
PhotoTokenNames == <<"visit_photo", "photo", "photo_area">>
PhotoToken(n) == <<"{", "{", n, "}", "}">>
PHOTO_TOKENS == [i \in 1..Len(PhotoTokenNames) |-> PhotoToken(PhotoTokenNames[i])]
PHOTO_SECTION_KEYWORDS == << <<"KW">> >>
PHOTOS_PER_PAGE == 2
CANVAS_W == 2200
CANVAS_H == 1650
CANVAS_MARGIN == 80

-----------------------------------------------------------------------------
(* Text helpers *)

RECURSIVE Concat(_)
Concat(ss) == IF ss = <<>> THEN <<>> ELSE Head(ss) \o Concat(Tail(ss))

\* what the regular expression's \s matches
IsWs(c) == c \in {" ", "NL", "TAB"}

RECURSIVE SkipWs(_, _)
SkipWs(t, i) == IF i <= Len(t) /\ IsWs(t[i]) THEN SkipWs(t, i + 1) ELSE i

\* re.compile(r"\{\{\s*" + re.escape(key) + r"\s*\}\}") matched at position i:
\* the position after the match, or 0 when there is no match at i.
MatchEnd(t, i, key) ==
    IF ~(i + 1 <= Len(t) /\ t[i] = "{" /\ t[i + 1] = "{") THEN 0
    ELSE LET j == SkipWs(t, i + 2) IN
         IF ~(j <= Len(t) /\ t[j] = key) THEN 0
         ELSE LET k == SkipWs(t, j + 1) IN
              IF k + 1 <= Len(t) /\ t[k] = "}" /\ t[k + 1] = "}" THEN k + 2 ELSE 0

\* pattern.findall(text): the non-overlapping matches, leftmost first
RECURSIVE CountFrom(_, _, _)
CountFrom(t, i, key) ==
    IF i > Len(t) THEN 0
    ELSE LET e == MatchEnd(t, i, key) IN
         IF e > 0 THEN 1 + CountFrom(t, e, key) ELSE CountFrom(t, i + 1, key)

FindallCount(t, key) == CountFrom(t, 1, key)

\* A replacement string is a template for re: a backslash starts an escape.
\* "\n" is a newline, "\\" a backslash, a backslash before another ASCII
\* letter or at the end is an error (re.error), before any other character
\* it stays as it is.
IsAsciiLetter(c) == c \in {"a", "b", "n"}

RECURSIVE BadEscapeFrom(_, _)
BadEscapeFrom(v, i) ==
    IF i > Len(v) THEN FALSE
    ELSE IF v[i] # "\\" THEN BadEscapeFrom(v, i + 1)
    ELSE IF i = Len(v) THEN TRUE
    ELSE IF IsAsciiLetter(v[i + 1]) /\ v[i + 1] # "n" THEN TRUE
    ELSE BadEscapeFrom(v, i + 2)

BadEscape(v) == BadEscapeFrom(v, 1)

RECURSIVE ExpandFrom(_, _)
ExpandFrom(v, i) ==
    IF i > Len(v) THEN <<>>
    ELSE IF v[i] # "\\" \/ i = Len(v) THEN <<v[i]>> \o ExpandFrom(v, i + 1)
    ELSE IF v[i + 1] = "n" THEN <<"NL">> \o ExpandFrom(v, i + 2)
    ELSE IF v[i + 1] = "\\" THEN <<"\\">> \o ExpandFrom(v, i + 2)
    ELSE <<v[i], v[i + 1]>> \o ExpandFrom(v, i + 2)

ExpandTemplate(v) == ExpandFrom(v, 1)

\* pattern.subn(repl, text)[0]
RECURSIVE SubFrom(_, _, _, _)
SubFrom(t, i, key, repl) ==
    IF i > Len(t) THEN <<>>
    ELSE LET e == MatchEnd(t, i, key) IN
         IF e > 0 THEN ExpandTemplate(repl) \o SubFrom(t, e, key, repl)
         ELSE <<t[i]>> \o SubFrom(t, i + 1, key, repl)

Subn(t, key, repl) == SubFrom(t, 1, key, repl)

\* `needle in text`
RECURSIVE FindFrom(_, _, _)
FindFrom(t, s, i) ==
    IF i + Len(s) - 1 > Len(t) THEN 0
    ELSE IF SubSeq(t, i, i + Len(s) - 1) = s THEN i
    ELSE FindFrom(t, s, i + 1)

Contains(t, s) == FindFrom(t, s, 1) > 0

\* text.replace(s, "") for a non-empty s
RECURSIVE RemoveAll(_, _)
RemoveAll(t, s) ==
    LET i == FindFrom(t, s, 1) IN
    IF i = 0 THEN t
    ELSE SubSeq(t, 1, i - 1) \o RemoveAll(SubSeq(t, i + Len(s), Len(t)), s)

\* str.strip()
RECURSIVE StripLeft(_)
StripLeft(t) == IF t # <<>> /\ IsWs(Head(t)) THEN StripLeft(Tail(t)) ELSE t

RECURSIVE StripRight(_)
StripRight(t) ==
    IF t # <<>> /\ IsWs(t[Len(t)]) THEN StripRight(SubSeq(t, 1, Len(t) - 1)) ELSE t

Strip(t) == StripRight(StripLeft(t))

-----------------------------------------------------------------------------
(* The document: a body of block elements.  A paragraph holds runs of text  *)
(* and at most one inline object (a page break or a picture); a table holds *)
(* rows of cells and a cell holds block elements again.                     *)

NoObj == [k |-> "none", src |-> 0, form |-> "none", id |-> 0]
Para(runs) == [t |-> "p", runs |-> runs, rows |-> <<>>, obj |-> NoObj]
Table(rows) == [t |-> "tbl", runs |-> <<>>, rows |-> rows, obj |-> NoObj]

\* paragraph.text
ParaText(p) == Concat(p.runs)

\* paragraph.text = s: the paragraph's content becomes one run
SetParaText(p, s) == [p EXCEPT !.runs = <<s>>, !.obj = NoObj]

\* the indices i of 1..n with P(i), in increasing order
RECURSIVE SelectFrom(_, _)
SelectFrom(bs, i) ==
    IF i > Len(bs) THEN <<>>
    ELSE (IF bs[i] THEN <<i>> ELSE <<>>) \o SelectFrom(bs, i + 1)

\* F(i) \o ... \o F(n)
FlatMap(i, n, F(_)) == Concat([j \in 1..(n - i + 1) |-> F(j + i - 1)])

\* A paragraph's place: <<i, 0, 0, 0>> is body element i; <<i, r, c, j>> is
\* element j of cell c of row r of the table that is body element i.
IsBodyLoc(loc) == loc[2] = 0

LocsOf(i, r, c, js) == [n \in 1..Len(js) |-> <<i, r, c, js[n]>>]

\* the positions of the paragraphs among the elements els
ParaIdx(els) == SelectFrom([j \in 1..Len(els) |-> els[j].t = "p"], 1)

CellParaLocs(d, i, r, c) == LocsOf(i, r, c, ParaIdx(d.body[i].rows[r][c]))

RowParaLocs(d, i, r) ==
    FlatMap(1, Len(d.body[i].rows[r]), LAMBDA c : CellParaLocs(d, i, r, c))

TableParaLocs(d, i) ==
    FlatMap(1, Len(d.body[i].rows), LAMBDA r : RowParaLocs(d, i, r))

\* doc.paragraphs
BodyLocsOf(is) == [n \in 1..Len(is) |-> <<is[n], 0, 0, 0>>]

BodyParaLocs(d) == BodyLocsOf(ParaIdx(d.body))

\* doc.tables, their rows, their cells, each cell's paragraphs
AllTableParaLocs(d) ==
    FlatMap(1, Len(d.body),
            LAMBDA i : IF d.body[i].t = "tbl" THEN TableParaLocs(d, i) ELSE <<>>)

\* _iter_paragraphs: the body's paragraphs, then the tables' cell paragraphs
IterParagraphs(d) == BodyParaLocs(d) \o AllTableParaLocs(d)

ParaAt(d, loc) ==
    IF IsBodyLoc(loc) THEN d.body[loc[1]]
    ELSE d.body[loc[1]].rows[loc[2]][loc[3]][loc[4]]

SetParaAt(d, loc, p) ==
    IF IsBodyLoc(loc) THEN [d EXCEPT !.body[loc[1]] = p]
    ELSE [d EXCEPT !.body[loc[1]].rows[loc[2]][loc[3]][loc[4]] = p]

\* the text of every paragraph _iter_paragraphs yields, in order
TextsAt(d, locs) == [n \in 1..Len(locs) |-> ParaText(ParaAt(d, locs[n]))]

DocTexts(d) == TextsAt(d, IterParagraphs(d))

-----------------------------------------------------------------------------
(* Placeholder substitution *)

\* _apply_patterns: the keys' patterns one after the other, each on the
\* result of the one before
RECURSIVE ApplyFrom(_, _, _)
ApplyFrom(text, values, i) ==
    IF i > Len(PLACEHOLDER_KEYS) THEN text
    ELSE ApplyFrom(Subn(text, PLACEHOLDER_KEYS[i], values[PLACEHOLDER_KEYS[i]]),
                   values, i + 1)

RECURSIVE ChangedFrom(_, _, _)
ChangedFrom(text, values, i) ==
    IF i > Len(PLACEHOLDER_KEYS) THEN FALSE
    ELSE \/ FindallCount(text, PLACEHOLDER_KEYS[i]) > 0
         \/ ChangedFrom(Subn(text, PLACEHOLDER_KEYS[i], values[PLACEHOLDER_KEYS[i]]),
                        values, i + 1)

_apply_patterns(text, values) ==
    [text |-> ApplyFrom(text, values, 1), changed |-> ChangedFrom(text, values, 1)]

\* replace_placeholders.process: every run by itself, then the paragraph's
\* whole text
ProcessRun(text, a) == IF a.changed THEN a.text ELSE text

ProcessRuns(p, values) ==
    [p EXCEPT !.runs = [r \in 1..Len(p.runs) |->
                           ProcessRun(p.runs[r], _apply_patterns(p.runs[r], values))]]

ProcessCombined(p1, combined, b) ==
    IF b.changed /\ b.text # combined THEN SetParaText(p1, b.text) ELSE p1

ProcessWhole(p1, values) ==
    ProcessCombined(p1, ParaText(p1), _apply_patterns(ParaText(p1), values))

process(p, values) == ProcessWhole(ProcessRuns(p, values), values)

RECURSIVE ProcessLocs(_, _, _)
ProcessLocs(d, locs, values) ==
    IF locs = <<>> THEN d
    ELSE ProcessLocs(SetParaAt(d, Head(locs), process(ParaAt(d, Head(locs)), values)),
                     Tail(locs), values)

\* re raises for a replacement string with a bad escape as soon as subn is
\* called with it, match or no match
ReplaceRaises(d, values) ==
    /\ IterParagraphs(d) # <<>>
    /\ \E k \in Keys : BadEscape(values[k])

replace_placeholders(d, values) ==
    ProcessLocs(d, BodyParaLocs(d) \o AllTableParaLocs(d), values)

RECURSIVE SumCounts(_, _)
SumCounts(texts, key) ==
    IF texts = <<>> THEN 0
    ELSE FindallCount(Head(texts), key) + SumCounts(Tail(texts), key)

\* inspect_template_placeholders: per key, the matches in all paragraphs
inspect_template_placeholders(d) ==
    [k \in Keys |-> SumCounts(DocTexts(d), k)]

\* generate_report's `missing`, in the order of the keys
KeysAt(is) == [n \in 1..Len(is) |-> PLACEHOLDER_KEYS[is[n]]]

\* faulty variant of MissingKeys: stops at the first missing key
MissingKeysFirstOnly(stats) ==
    SubSeq(KeysAt(SelectFrom([i \in 1..Len(PLACEHOLDER_KEYS) |-> stats[PLACEHOLDER_KEYS[i]] = 0], 1)),
           1, 1)

MissingKeys(stats) ==
    KeysAt(SelectFrom([i \in 1..Len(PLACEHOLDER_KEYS) |-> stats[PLACEHOLDER_KEYS[i]] = 0], 1))

-----------------------------------------------------------------------------
(* Photo preparation.  A photo file is [base, kind, readable]: `base` is    *)
(* the file's name without directory and extension, `kind` says what        *)
(* happens when it is prepared, `readable` whether add_picture can read the *)
(* file's own bytes.  A path is [k, id]: k = "cache" is the file            *)
(* <cache_dir>/<id>_processed.jpg, k = "src" is photo number id itself,     *)
(* k = "none" is the empty string.  A file's content is [src, ok]: the      *)
(* photo whose picture it holds and whether add_picture can read it.        *)

PhotoKinds ==
    {"missing",            \* os.path.exists(path) is false
     "heic_ok",            \* HEIC, sips converts it
     "heic_nosips",        \* HEIC, shutil.which("sips") is None
     "heic_fail",          \* HEIC, sips raises
     "heic_small",         \* HEIC, sips leaves an output of at most 1024 bytes
     "ok",                 \* PIL processes it
     "pil_fail_copy_ok",   \* PIL raises, shutil.copy2 succeeds
     "pil_fail_copy_fail"} \* PIL raises, shutil.copy2 raises

IsHeic(ph) == ph.kind \in {"heic_ok", "heic_nosips", "heic_fail", "heic_small"}

NoPath == [k |-> "none", id |-> 0]
CachePath(b) == [k |-> "cache", id |-> b]
SrcPath(i) == [k |-> "src", id |-> i]
NoContent == [src |-> 0, ok |-> FALSE]

\* _prepare_photo_for_word(src = photo i): the returned path and the cache
\* directory afterwards
_prepare_photo_for_word(ph, i, pil_ok, c) ==
    IF IsHeic(ph) THEN
        CASE ph.kind = "heic_ok" ->
                [path |-> CachePath(ph.base),
                 cache |-> [c EXCEPT ![ph.base] = [src |-> i, ok |-> TRUE]]]
          [] ph.kind = "heic_small" ->
                [path |-> NoPath, cache |-> [c EXCEPT ![ph.base] = [src |-> i, ok |-> FALSE]]]
          [] OTHER -> [path |-> NoPath, cache |-> c]
    ELSE IF ~pil_ok THEN [path |-> SrcPath(i), cache |-> c]
    ELSE CASE ph.kind = "ok" ->
                [path |-> CachePath(ph.base),
                 cache |-> [c EXCEPT ![ph.base] = [src |-> i, ok |-> TRUE]]]
           [] ph.kind = "pil_fail_copy_ok" ->
                [path |-> CachePath(ph.base),
                 cache |-> [c EXCEPT ![ph.base] = [src |-> i, ok |-> ph.readable]]]
           [] OTHER -> [path |-> NoPath, cache |-> c]

\* insert_photos' first loop: `processed` and the cache directory after the
\* photos from number i on have been prepared
\* `if cooked: processed.append(cooked)`
Cooked(st, i, r) ==
    [processed |-> IF r.path # NoPath
                   THEN Append(st.processed, [path |-> r.path, of |-> i])
                   ELSE st.processed,
     cache |-> r.cache]

RECURSIVE PrepareFrom(_, _, _, _)
PrepareFrom(phs, i, pil_ok, st) ==
    IF i > Len(phs) THEN st
    ELSE IF phs[i].kind = "missing" THEN PrepareFrom(phs, i + 1, pil_ok, st)
    ELSE PrepareFrom(phs, i + 1, pil_ok,
                     Cooked(st, i, _prepare_photo_for_word(phs[i], i, pil_ok, st.cache)))

\* _clear_photo_tokens
RECURSIVE ClearFrom(_, _)
ClearFrom(p, i) ==
    IF i > Len(PHOTO_TOKENS) THEN p
    ELSE IF Contains(ParaText(p), PHOTO_TOKENS[i])
         THEN ClearFrom(SetParaText(p, RemoveAll(ParaText(p), PHOTO_TOKENS[i])), i + 1)
         ELSE ClearFrom(p, i + 1)

_clear_photo_tokens(p) == ClearFrom(p, 1)

HasPhotoToken(text) == \E i \in 1..Len(PHOTO_TOKENS) : Contains(text, PHOTO_TOKENS[i])
HasSectionKeyword(text) ==
    /\ Strip(text) # <<>>
    /\ \E i \in 1..Len(PHOTO_SECTION_KEYWORDS) : Contains(Strip(text), PHOTO_SECTION_KEYWORDS[i])

\* faulty variant of AnchorAmong: the section keyword is looked for first
AnchorAmongKeywordFirst(d, locs, toks, kws) ==
    IF kws # <<>> THEN [doc |-> d, loc |-> locs[kws[1]]]
    ELSE IF toks # <<>> THEN [doc |-> d, loc |-> locs[toks[1]]]
    ELSE [doc |-> [d EXCEPT !.body = Append(d.body, Para(<< <<"KW", ":">> >>))],
          loc |-> <<Len(d.body) + 1, 0, 0, 0>>]

\* _find_photo_anchor: [doc, loc]; the document grows by one paragraph when
\* nothing matches
AnchorAmong(d, locs, toks, kws) ==
    IF toks # <<>> THEN [doc |-> d, loc |-> locs[toks[1]]]
    ELSE IF kws # <<>> THEN [doc |-> d, loc |-> locs[kws[1]]]
    ELSE [doc |-> [d EXCEPT !.body = Append(d.body, Para(<< <<"KW", ":">> >>))],
          loc |-> <<Len(d.body) + 1, 0, 0, 0>>]

AnchorIn(d, locs, texts) ==
    AnchorAmong(d, locs,
                SelectFrom([n \in 1..Len(texts) |-> HasPhotoToken(texts[n])], 1),
                SelectFrom([n \in 1..Len(texts) |-> HasSectionKeyword(texts[n])], 1))

_find_photo_anchor(d) == AnchorIn(d, IterParagraphs(d), DocTexts(d))

\* the groups of PHOTOS_PER_PAGE consecutive photos
Min(a, b) == IF a < b THEN a ELSE b

Groups(processed) ==
    LET n == Len(processed)
        g == (n + PHOTOS_PER_PAGE - 1) \div PHOTOS_PER_PAGE
    IN  [i \in 1..g |->
            SubSeq(processed, (i - 1) * PHOTOS_PER_PAGE + 1, Min(i * PHOTOS_PER_PAGE, n))]

\* the file add_picture opens
FileAt(path, phs, c) ==
    IF path.k = "cache" THEN c[path.id]
    ELSE [src |-> path.id, ok |-> phs[path.id].readable]

\* the paragraph of a photo row: the picture, or the failure notice
RowParaOf(item, f) ==
    IF f.ok
    THEN [t |-> "p", runs |-> << <<>>, <<>> >>, rows |-> <<>>,
          obj |-> [k |-> "pic", src |-> f.src, form |-> item.path.k, id |-> item.path.id]]
    ELSE [t |-> "p", runs |-> << <<"insert_failed">> >>, rows |-> <<>>,
          obj |-> [k |-> "notice", src |-> f.src, form |-> item.path.k, id |-> item.path.id]]

PhotoRowPara(item, phs, c) == RowParaOf(item, FileAt(item.path, phs, c))

\* doc.add_table(rows=len(group), cols=1) with its rows filled
PhotoTable(group, phs, c) ==
    Table([r \in 1..Len(group) |-> << <<PhotoRowPara(group[r], phs, c)>> >>])

PageBreakPara ==
    [t |-> "p", runs |-> << <<>> >>, rows |-> <<>>,
     obj |-> [k |-> "break", src |-> 0, form |-> "page", id |-> 0]]

InsertAt(seq, j, e) == SubSeq(seq, 1, j) \o <<e>> \o SubSeq(seq, j + 1, Len(seq))

\* faulty variant of BreakAfter: a page break after the last group too
BreakAfterEvery(idx, ngroups) == idx < ngroups

\* whether a page break follows group idx (idx counts from 0)
BreakAfter(idx, ngroups) == idx < ngroups - 1

\* insert_photos' second loop on the anchor's container: st = [els, last],
\* `last` the position of last_element
\* last_element.addnext(e); last_element = e
AddNext(st, e) == [els |-> InsertAt(st.els, st.last, e), last |-> st.last + 1]

WithBreak(st, idx, ngroups) ==
    IF BreakAfter(idx, ngroups) THEN AddNext(st, PageBreakPara) ELSE st

RECURSIVE InsertGroups(_, _, _, _, _)
InsertGroups(st, groups, idx, phs, c) ==
    IF idx >= Len(groups) THEN st
    ELSE InsertGroups(WithBreak(AddNext(st, PhotoTable(groups[idx + 1], phs, c)),
                                idx, Len(groups)),
                      groups, idx + 1, phs, c)

\* the elements of the container (the body or a cell) that holds loc
Container(d, loc) ==
    IF IsBodyLoc(loc) THEN d.body ELSE d.body[loc[1]].rows[loc[2]][loc[3]]

SetContainer(d, loc, els) ==
    IF IsBodyLoc(loc) THEN [d EXCEPT !.body = els]
    ELSE [d EXCEPT !.body[loc[1]].rows[loc[2]][loc[3]] = els]

PosIn(loc) == IF IsBodyLoc(loc) THEN loc[1] ELSE loc[4]

NoLoc == <<0, 0, 0, 0>>

\* lines 294-325 on the document d1 whose anchor paragraph is at loc
InsertAfterAnchor(d1, loc, phs, prep) ==
    SetContainer(d1, loc,
                 InsertGroups([els |-> Container(d1, loc), last |-> PosIn(loc)],
                              Groups(prep.processed), 0, phs, prep.cache).els)

\* lines 292-325
InsertPrepared(a, phs, prep) ==
    [doc |-> InsertAfterAnchor(SetParaAt(a.doc, a.loc, _clear_photo_tokens(ParaAt(a.doc, a.loc))),
                               a.loc, phs, prep),
     cache |-> prep.cache, processed |-> prep.processed, anchor |-> a.loc]

\* lines 287-325
AfterPrepare(d, phs, prep) ==
    IF prep.processed = <<>>
    THEN [doc |-> d, cache |-> prep.cache, processed |-> <<>>, anchor |-> NoLoc]
    ELSE InsertPrepared(_find_photo_anchor(d), phs, prep)

\* insert_photos: [doc, cache, processed, anchor]
insert_photos(d, phs, pil_ok, c) ==
    IF phs = <<>> THEN [doc |-> d, cache |-> c, processed |-> <<>>, anchor |-> NoLoc]
    ELSE AfterPrepare(d, phs, PrepareFrom(phs, 1, pil_ok, [processed |-> <<>>, cache |-> c]))

-----------------------------------------------------------------------------
(* Output files.  A path of the output directory is [stem, idx, ext]: idx 0 *)
(* is "<stem>.<ext>", idx k > 0 is "<stem> (k).<ext>".  The directory is a   *)
(* set of files [path, by]: `by` is the number of the run that wrote the     *)
(* file, 0 for a file that was there before the first run.                   *)

REPORT_SUFFIX == "report_suffix"

Exists(files, path) == \E f \in files : f.path = path
WriteFile(files, path, n) == {f \in files : f.path # path} \cup {[path |-> path, by |-> n]}

\* sanitize_filename
sanitize_filename(name) ==
    LET safe == IF Strip(name) = <<>> THEN <<"unnamed">> ELSE Strip(name)
    IN  [i \in 1..Len(safe) |-> IF safe[i] \in {"\\", "/", ":"} THEN "_" ELSE safe[i]]

\* the loop of next_nonconflicting_path from candidate number idx on
RECURSIVE NextFrom(_, _, _)
NextFrom(files, path, idx) ==
    LET candidate == [path EXCEPT !.idx = idx] IN
    IF ~Exists(files, candidate) THEN candidate ELSE NextFrom(files, path, idx + 1)

\* faulty variant of next_nonconflicting_path: the path as given
PathAsGiven(files, path) == path

next_nonconflicting_path(files, path) ==
    IF ~Exists(files, path) THEN path ELSE NextFrom(files, path, 1)

\* os.path.join(outdir, base_name) of generate_report
BasePath(flds) ==
    [stem |-> Append(sanitize_filename(flds["customer"]), REPORT_SUFFIX),
     idx |-> 0, ext |-> "docx"]

-----------------------------------------------------------------------------
(* generate_report, step by step *)

EmptyDoc == [body |-> <<>>]
NoFile == [stem |-> <<>>, idx |-> 0, ext |-> "none"]
NoOut == [error |-> "none", missing |-> <<>>, path |-> NoFile]
NoIns == [processed |-> <<>>, anchor |-> NoLoc]
\* the longest photo list of the batching runs, and of the runs with every
\* kind of preparation failure
MaxPhotos == 5
MaxFailPhotos == 2
Bases == 1..MaxPhotos
EmptyCache == [b \in Bases |-> NoContent]
Unset == [set |-> FALSE, text |-> <<>>, pass |-> 0]
WizIdle ==
    [idx |-> 0, fields |-> [k \in Keys |-> Unset], pass |-> 0, input |-> <<>>,
     photos |-> <<>>, cached |-> <<>>, end |-> "none"]
LbIdle == [w |-> 0, h |-> 0, rw |-> 0, rh |-> 0, ox |-> 0, oy |-> 0]
\* an option of the command line: absent (None), or present with its value
Absent == [present |-> FALSE, val |-> <<>>]
Given(v) == [present |-> TRUE, val |-> v]
\* sys.argv holds the program name only
NoArgs ==
    [customer |-> Absent, industry |-> Absent, address |-> Absent, photos |-> Absent,
     set_photos |-> Absent, no_photos |-> FALSE, check_template |-> FALSE,
     pdf |-> FALSE, interactive |-> FALSE]

\* an exception nobody catches ends the process
Raise(kind, missing) ==
    /\ pc' = "crashed"
    /\ out' = [out EXCEPT !.error = kind, !.missing = missing]

CheckMissing(missing) ==
    IF missing # <<>> THEN Raise("ValueError", missing)
    ELSE pc' = "validated" /\ out' = out

\* lines 340-354: the template must exist and hold every placeholder
Validate ==
    /\ pc = "gen"
    /\ IF ~tpl.exists THEN Raise("FileNotFoundError", <<>>)
       ELSE CheckMissing(MissingKeys(inspect_template_placeholders(tpl.doc)))
    /\ UNCHANGED <<caller, tpl, fields, photos, env, doc, cache, ins, fs, nruns, wiz, lb, args>>

\* lines 358-359: load the template and substitute
Replace ==
    /\ pc = "validated"
    /\ IF ReplaceRaises(tpl.doc, fields)
       THEN Raise("re.error", <<>>) /\ doc' = tpl.doc
       ELSE pc' = "replaced" /\ out' = out /\ doc' = replace_placeholders(tpl.doc, fields)
    /\ UNCHANGED <<caller, tpl, fields, photos, env, cache, ins, fs, nruns, wiz, lb, args>>

InsertPhotosResult(r) ==
    /\ doc' = r.doc
    /\ cache' = r.cache
    /\ ins' = [processed |-> r.processed, anchor |-> r.anchor]

\* line 361
InsertPhotos ==
    /\ pc = "replaced"
    /\ InsertPhotosResult(insert_photos(doc, photos, env.pil_ok, cache))
    /\ pc' = "inserted"
    /\ UNCHANGED <<caller, tpl, fields, photos, env, fs, out, nruns, wiz, lb, args>>

SaveTo(docx_out) ==
    /\ fs' = WriteFile(fs, docx_out, nruns)
    /\ out' = [out EXCEPT !.path = docx_out]

\* lines 363-366
Save ==
    /\ pc = "inserted"
    /\ SaveTo(next_nonconflicting_path(fs, BasePath(fields)))
    /\ pc' = "saved"
    /\ UNCHANGED <<caller, tpl, fields, photos, env, doc, cache, ins, nruns, wiz, lb, args>>

\* lines 368-388: the optional PDF beside the DOCX (the converter may or may
\* not produce it), then the return to the caller
Finish ==
    /\ pc = "saved"
    /\ \E written \in BOOLEAN :
          fs' = IF env.want_pdf /\ written
                THEN WriteFile(fs, [out.path EXCEPT !.ext = "pdf"], nruns)
                ELSE fs
    /\ pc' = IF caller = "interactive" THEN "w_continue" ELSE "done"
    /\ UNCHANGED <<caller, tpl, fields, photos, env, doc, cache, ins, out, nruns, wiz, lb, args>>

-----------------------------------------------------------------------------
(* Templates and field values the runs are started with *)

Tok(k) == <<"{", "{", k, "}", "}">>

\* the runs of a paragraph that is meant to hold key k's token
TokenForms(k) ==
    << << Tok(k) >>,                                          \* in one run
       << <<"{", "{", " ", k, "TAB", "}", "}">> >>,           \* with whitespace
       << <<"a">> \o Tok(k), <<"b">> >>,                      \* with text around
       << <<"{", "{">>, <<k, "}", "}">> >>,                   \* split in two runs
       << <<"{">>, <<"{", k>>, <<"}", "}">> >>,               \* split in three runs
       << Tok(k), <<"{", "{", k>>, <<"}", "}">> >>,           \* one whole, one split
       << <<"a">> >>,                                         \* no token
       << <<"{", "{", k, "}">> >> >>                          \* a brace short

PhotoSections == {"token_body", "token_text", "token_split", "token_cell", "keyword", "none"}

PhotoBodyParas(kind) ==
    CASE kind = "token_body" -> << Para(<< <<"KW", ":">> >>), Para(<< PhotoToken("visit_photo") >>) >>
      [] kind = "token_text" -> << Para(<< <<"KW", ":">> \o PhotoToken("photo") \o <<"a">> >>) >>
      [] kind = "token_split" -> << Para(<< <<"{", "{">>, <<"photo_area", "}", "}">> >>) >>
      [] kind = "keyword" -> << Para(<< <<" ", "KW", ":">> >>), Para(<< <<"KW">> >>) >>
      [] OTHER -> <<>>

\* choice: key -> [runs, cell]; the keys' paragraphs in the body, then one
\* table whose cells hold the other keys' paragraphs, then the photo section
PhotoCell(section) ==
    IF section = "token_cell"
    THEN << << Para(<< <<"KW">> >>), Para(<< PhotoToken("visit_photo") >>), Para(<< <<"b">> >>) >> >>
    ELSE <<>>

KeyCells(choice, inCell) ==
    [n \in 1..Len(inCell) |-> << Para(choice[PLACEHOLDER_KEYS[inCell[n]]].runs) >>]

TemplateOf(choice, inBody, cells, section) ==
    [body |-> [n \in 1..Len(inBody) |-> Para(choice[PLACEHOLDER_KEYS[inBody[n]]].runs)]
              \o (IF cells = <<>> THEN <<>> ELSE << Table(<< cells >>) >>)
              \o PhotoBodyParas(section)]

MkTemplate(choice, section) ==
    TemplateOf(choice,
               SelectFrom([i \in 1..Len(PLACEHOLDER_KEYS) |-> ~choice[PLACEHOLDER_KEYS[i]].cell], 1),
               KeyCells(choice,
                        SelectFrom([i \in 1..Len(PLACEHOLDER_KEYS) |-> choice[PLACEHOLDER_KEYS[i]].cell], 1))
               \o PhotoCell(section),
               section)

\* every key's paragraph holds some form of that key's token, in the body or
\* in a table cell
AllTemplates(section) ==
    {MkTemplate([k \in Keys |-> [runs |-> TokenForms(k)[ch[k][1]], cell |-> ch[k][2]]], section) :
        ch \in [Keys -> (1..Len(TokenForms("customer"))) \X BOOLEAN]}

\* a template with every token in one run, in the body
PlainTemplate(section) ==
    MkTemplate([k \in Keys |-> [runs |-> << Tok(k) >>, cell |-> FALSE]], section)

\* a template without the address token
LackingTemplate ==
    MkTemplate([k \in Keys |-> [runs |-> IF k = "address" THEN << <<"a">> >> ELSE << Tok(k) >>,
                               cell |-> FALSE]], "keyword")

\* tokens split over runs, in table cells
SplitTemplate(section) ==
    MkTemplate([k \in Keys |-> [runs |-> << <<"{", "{", k>>, <<"}", "}">> >>, cell |-> k # "customer"]],
               section)

PlainValues == [k \in Keys |-> IF k = "customer" THEN <<"a">>
                               ELSE IF k = "industry" THEN <<"b">> ELSE <<"b", "a">>]

\* field values: empty, ordinary, with a backslash, with token syntax, blank
FieldValues ==
    {<<>>, <<"a">>, <<"b", "a">>, <<"a", "\\", "b">>, <<"\\", "n">>, <<"\\", "\\">>,
     <<" ">>, <<"{", "{", "customer", "}", "}">>, <<"/", "a">>}

GenStart(t, exists, flds, phs, pil, pdf, files) ==
    /\ pc = "gen"
    /\ caller = "main"
    /\ tpl = [exists |-> exists, doc |-> t]
    /\ fields = flds
    /\ photos = phs
    /\ env = [pil_ok |-> pil, want_pdf |-> pdf]
    /\ doc = EmptyDoc
    /\ cache = EmptyCache
    /\ ins = NoIns
    /\ fs = files
    /\ out = NoOut
    /\ nruns = 1
    /\ wiz = WizIdle
    /\ lb = LbIdle
    /\ args = NoArgs

OkPhoto(b) == [base |-> b, kind |-> "ok", readable |-> TRUE]

\* substitution: every template with plain values, and a few templates with
\* every combination of field values
InitSubst ==
    \/ \E t \in AllTemplates("keyword") : GenStart(t, TRUE, PlainValues, <<>>, TRUE, FALSE, {})
    \/ \E t \in {PlainTemplate("token_body"), SplitTemplate("keyword")} :
       \E flds \in [Keys -> FieldValues] :
          GenStart(t, TRUE, flds, <<>>, TRUE, FALSE, {})
    \/ \E exists \in BOOLEAN, phs \in {<<>>, <<OkPhoto(1)>>} :
          GenStart(PlainTemplate("token_body"), exists, PlainValues, phs, TRUE, TRUE, {})

NextGen == Validate \/ Replace \/ InsertPhotos \/ Save \/ Finish

SpecSubst == InitSubst /\ [][NextGen]_vars

-----------------------------------------------------------------------------
(* Claims about validation and substitution (checked under SpecSubst) *)

\* the keys whose token occurs nowhere in document d
ZeroKeys(d) == {k \in Keys : inspect_template_placeholders(d)[k] = 0}

SeqRange(q) == {q[i] : i \in 1..Len(q)}

\* no file of the output directory was written by the current run
NothingWritten == out.path = NoFile /\ \A f \in fs : f.by # nruns

\* C1: when the template lacks a required token, generate_report raises
\* before the document is loaded, substituted, given photos or saved, no
\* output file is written, and the error names exactly the keys whose count
\* is 0, each once.
C1_MissingTokensRaiseFirst ==
    (tpl.exists /\ ZeroKeys(tpl.doc) # {}) =>
        /\ pc \in {"gen", "crashed"}
        /\ doc = EmptyDoc /\ ins = NoIns /\ cache = EmptyCache
        /\ NothingWritten
        /\ pc = "crashed" =>
              /\ out.error = "ValueError"
              /\ SeqRange(out.missing) = ZeroKeys(tpl.doc)
              /\ Len(out.missing) = Cardinality(ZeroKeys(tpl.doc))

\* two tokens are missing and the run has raised
C1_Witness ==
    /\ pc = "crashed"
    /\ out.error = "ValueError"
    /\ Cardinality(ZeroKeys(tpl.doc)) = 2
    /\ Len(out.missing) = 2

\* the template passes validation
TemplateValid == tpl.exists /\ ZeroKeys(tpl.doc) = {}

\* a value of ordinary characters only: no brace, no blank, no key name
OrdinaryValue(v) == v # <<>> /\ \A i \in 1..Len(v) : v[i] \in {"a", "b", "n", "\\"}

ValueOccurs(d, v) == \E n \in 1..Len(DocTexts(d)) : Contains(DocTexts(d)[n], v)

\* C2, for field values of ordinary characters: with a template that holds
\* every required token, replace_placeholders completes, and afterwards the
\* document holds no token of any key and holds every key's value.
C2_Claim ==
    (TemplateValid /\ (\A k \in Keys : OrdinaryValue(fields[k])) /\ pc \in {"replaced", "crashed"}) =>
        /\ pc = "replaced"
        /\ \A k \in Keys : SumCounts(DocTexts(doc), k) = 0 /\ ValueOccurs(doc, fields[k])

-----------------------------------------------------------------------------
(* Runs that differ in their photos *)

SeqsUpTo(S, n) == UNION {[1..m -> S] : m \in 0..n}

\* photo i of a batching run: its own base name, prepared or not
BatchPhotos ==
    {[i \in 1..Len(ks) |-> [base |-> i, kind |-> ks[i], readable |-> TRUE]] :
        ks \in SeqsUpTo({"ok", "missing", "heic_nosips"}, MaxPhotos)}

\* every kind of photo, under one of two base names
PhotoFiles ==
    {[base |-> b, kind |-> k, readable |-> r] :
        b \in {1, 2}, k \in PhotoKinds, r \in BOOLEAN} \
    {ph \in [base : {1, 2}, kind : PhotoKinds, readable : BOOLEAN] :
        \/ ph.kind \in {"ok", "heic_ok"} /\ ~ph.readable
        \/ ph.kind \notin {"ok", "heic_ok", "pil_fail_copy_ok"} /\ ph.readable}

InitPhotos ==
    \/ \E section \in PhotoSections, phs \in BatchPhotos, pil \in BOOLEAN :
          GenStart(PlainTemplate(section), TRUE, PlainValues, phs, pil, FALSE, {})
    \/ \E section \in {"token_body", "none"}, phs \in SeqsUpTo(PhotoFiles, MaxFailPhotos),
          pil \in BOOLEAN :
          GenStart(PlainTemplate(section), TRUE, PlainValues, phs, pil, FALSE, {})

SpecPhotos == InitPhotos /\ [][NextGen]_vars

\* the elements that follow the anchor in its container
AfterAnchor(d, loc) ==
    SubSeq(Container(d, loc), PosIn(loc) + 1, Len(Container(d, loc)))

\* all block elements of the document: the body's, those of the cells of the
\* body's tables, and those of the cells of the tables inside such cells
CellElems(tb) == Concat([r \in 1..Len(tb.rows) |-> Concat(tb.rows[r])])
ElemsIn(els) ==
    Concat([i \in 1..Len(els) |-> IF els[i].t = "tbl" THEN CellElems(els[i]) ELSE <<>>])
AllElems(d) == d.body \o ElemsIn(d.body) \o ElemsIn(ElemsIn(d.body))

CountIf(bs) == Len(SelectFrom(bs, 1))
NTables(els) == CountIf([i \in 1..Len(els) |-> els[i].t = "tbl"])
NBreaks(els) == CountIf([i \in 1..Len(els) |-> els[i].obj.k = "break"])
NPhotoRows(els) == CountIf([i \in 1..Len(els) |-> els[i].obj.k \in {"pic", "notice"}])

\* C3: with no photo available after preparation, insert_photos leaves no
\* photo token in the document, inserts no table and raises nothing.
C3_Claim ==
    (pc = "inserted" /\ ins.processed = <<>>) =>
        /\ \A n \in 1..Len(DocTexts(doc)) : ~HasPhotoToken(DocTexts(doc)[n])
        /\ NTables(AllElems(doc)) = NTables(AllElems(tpl.doc))
        /\ out.error = "none"

\* the batch structure that follows the anchor for n prepared photos:
\* table, break, table, ..., table
BatchShape(els, n, t) ==
    /\ Len(els) >= 2 * t - 1
    /\ \A g \in 1..t :
          /\ els[2 * g - 1].t = "tbl"
          /\ \A r \in 1..Len(els[2 * g - 1].rows) : Len(els[2 * g - 1].rows[r]) = 1
          /\ Len(els[2 * g - 1].rows) =
                IF g < t THEN 2 ELSE IF n % 2 = 1 THEN 1 ELSE 2
    /\ \A g \in 1..(t - 1) : els[2 * g].obj.k = "break"
    /\ Len(els) >= 2 * t => els[2 * t].obj.k # "break"

\* C4: for N >= 1 prepared photos insert_photos inserts ceil(N/2) one-column
\* tables after the anchor, all of 2 rows but the last, which has 1 row for
\* odd N and 2 for even N; N rows in all; and tables - 1 page breaks, one
\* between consecutive tables and none after the last.
C4_Batching ==
    (pc = "inserted" /\ Len(ins.processed) >= 1) =>
        /\ BatchShape(AfterAnchor(doc, ins.anchor), Len(ins.processed),
                      (Len(ins.processed) + 1) \div 2)
        /\ NTables(AllElems(doc)) - NTables(AllElems(tpl.doc)) = (Len(ins.processed) + 1) \div 2
        /\ NPhotoRows(AllElems(doc)) = Len(ins.processed)
        /\ NBreaks(AllElems(doc)) = (Len(ins.processed) + 1) \div 2 - 1

\* three photos prepared out of more, anchored in a table cell
C4_Witness ==
    /\ pc = "inserted"
    /\ Len(ins.processed) = 3
    /\ Len(photos) > 3
    /\ ~IsBodyLoc(ins.anchor)
    /\ NBreaks(AllElems(doc)) = 1

\* the photos whose preparation returns a usable path, in input order
Usable(phs, pil_ok) ==
    SelectFrom([i \in 1..Len(phs) |->
                   /\ phs[i].kind # "missing"
                   /\ _prepare_photo_for_word(phs[i], i, pil_ok, EmptyCache).path # NoPath], 1)

\* the photo each placed row holds, in document order
PlacedIn(els) ==
    SelectFrom([i \in 1..Len(els) |-> els[i].obj.k \in {"pic", "notice"}], 1)
PlacedSrcs(els) == [n \in 1..Len(PlacedIn(els)) |-> els[PlacedIn(els)[n]].obj.src]

\* C9: insert_photos never raises, and the rows placed in the document hold,
\* in order, exactly the photos whose own preparation returned a usable
\* path: no photo is changed by what happens to another one.
C9_Claim ==
    pc = "inserted" =>
        /\ out.error = "none"
        /\ PlacedSrcs(ElemsIn(AfterAnchor(doc, ins.anchor))) = Usable(photos, env.pil_ok)

-----------------------------------------------------------------------------
(* Runs one after the other into the same output directory *)

\* the number of generate_report runs, and the highest index among the files
\* that are in the directory before the first run
MaxRuns == 3
MaxIdx == 2

\* customer names: "a", " a" (the same file name once sanitized) and "b"
Customers == {<<"a">>, <<" ", "a">>, <<"b">>}

FieldsFor(c) == [PlainValues EXCEPT !["customer"] = c]

OldFiles ==
    {[path |-> [stem |-> BasePath(FieldsFor(<<"a">>)).stem, idx |-> i, ext |-> e], by |-> 0] :
        i \in 0..MaxIdx, e \in {"docx"}}
    \cup {[path |-> [stem |-> BasePath(FieldsFor(<<"a">>)).stem, idx |-> 0, ext |-> "pdf"], by |-> 0]}

InitFiles ==
    \E files \in SUBSET OldFiles, pdf \in BOOLEAN, exists \in BOOLEAN :
        GenStart(PlainTemplate("keyword"), exists, PlainValues, <<>>, TRUE, pdf, files)

\* the program is started again, for the same or another customer; the files
\* on disk stay
Invoke ==
    /\ pc \in {"done", "crashed"}
    /\ nruns < MaxRuns
    /\ nruns' = nruns + 1
    /\ \E c \in Customers : fields' = FieldsFor(c)
    /\ pc' = "gen"
    /\ doc' = EmptyDoc
    /\ ins' = NoIns
    /\ out' = NoOut
    /\ tpl' = [tpl EXCEPT !.exists = TRUE]
    /\ UNCHANGED <<caller, photos, env, cache, fs, wiz, lb, args>>

NextFiles == NextGen \/ Invoke

SpecFiles == InitFiles /\ [][NextFiles]_vars

\* C5: no step changes or removes a DOCX file of the output directory, and
\* the path a run saves to does not exist when it is computed: it is the
\* base path "X.docx" when that is free, else "X (k).docx" for the smallest
\* k >= 1 that is free.
C5_NoOverwrite ==
    [][/\ \A f \in fs : f.path.ext = "docx" => f \in fs'
       /\ (pc = "inserted" /\ pc' = "saved") =>
            /\ ~Exists(fs, out'.path)
            /\ out'.path.stem = BasePath(fields).stem /\ out'.path.ext = "docx"
            /\ ~Exists(fs, BasePath(fields)) => out'.path.idx = 0
            /\ Exists(fs, BasePath(fields)) =>
                  /\ out'.path.idx >= 1
                  /\ \A j \in 1..(out'.path.idx - 1) :
                        Exists(fs, [BasePath(fields) EXCEPT !.idx = j])]_vars

\* three runs for the same customer into an empty directory have written
\* "X.docx", "X (1).docx" and "X (2).docx"
C5_Witness ==
    /\ pc = "saved" /\ nruns = 3
    /\ out.path = [BasePath(fields) EXCEPT !.idx = 2]
    /\ \A i \in 0..2 : [path |-> [BasePath(fields) EXCEPT !.idx = i], by |-> i + 1] \in fs

-----------------------------------------------------------------------------
(* interactive(): the wizard.  wiz = [idx, fields, pass, input, photos,      *)
(* cached, end]: the key being asked for (1..3), the dictionary `fields`     *)
(* (each entry with the number of the pass of the outer loop in which it was *)
(* typed), the number of the current pass, the line input() returned last,   *)
(* `photos`, `cached_photos`, and how the session ended.                     *)

\* the passes of the outer `while True` loop a session is followed through
MaxPasses == 3

UpperChar(c) ==
    CASE c = "a" -> "A" [] c = "b" -> "B" [] c = "q" -> "Q" [] c = "y" -> "Y"
      [] c = "n" -> "N" [] OTHER -> c
LowerChar(c) ==
    CASE c = "A" -> "a" [] c = "B" -> "b" [] c = "Q" -> "q" [] c = "Y" -> "y"
      [] c = "N" -> "n" [] OTHER -> c
Upper(t) == [i \in 1..Len(t) |-> UpperChar(t[i])]
Lower(t) == [i \in 1..Len(t) |-> LowerChar(t[i])]

BACK == <<"__BACK__">>

\* prompt(): [interrupt, val]
prompt(line) ==
    IF Upper(Strip(line)) = <<"Q">> THEN [interrupt |-> TRUE, val |-> <<>>]
    ELSE IF Upper(Strip(line)) = <<"B">> THEN [interrupt |-> FALSE, val |-> BACK]
    ELSE [interrupt |-> FALSE, val |-> Strip(line)]

\* the lines a user types
FieldLines == {<<>>, <<" ">>, <<"B">>, <<" ", "b">>, <<"Q">>, <<"q", " ">>, <<"a">>, <<" ", "a", "a">>}
YesNoLines == {<<>>, <<"y">>, <<"Y", " ">>, <<"n">>, <<"Q">>, <<"B">>}

\* expand_photos_arg on what is typed at the photo prompt: "a" is a
\* directory with one photo, anything else does not exist
expand_photos_arg(arg) ==
    IF arg = <<>> THEN <<>>
    ELSE IF Strip(arg) = <<"a">> THEN << [base |-> 1, kind |-> "ok", readable |-> TRUE] >>
    ELSE <<>>

\* faulty variant of IsEmpty: nothing counts as empty
IsEmptyNever(val) == FALSE

\* `not val`
IsEmpty(val) == val = <<>>

\* line 444, `fields = {}`, at the start of pass number n
NewPass(n) ==
    [wiz EXCEPT !.idx = 1, !.fields = [k \in Keys |-> Unset], !.pass = n, !.photos = <<>>]

\* `except KeyboardInterrupt`: the session is over
Cancelled(line) ==
    /\ pc' = "w_exit"
    /\ wiz' = [wiz EXCEPT !.input = line, !.end = "cancelled"]

\* `continue` of the outer loop
Restart(line) ==
    /\ wiz.pass < MaxPasses
    /\ pc' = "w_field"
    /\ wiz' = [NewPass(wiz.pass + 1) EXCEPT !.input = line]

\* lines 445-463 for one line read at a field prompt
FieldAnswer(line, r) ==
    IF r.interrupt THEN Cancelled(line)
    ELSE IF r.val = BACK THEN Restart(line)
    ELSE IF IsEmpty(r.val) THEN pc' = pc /\ wiz' = [wiz EXCEPT !.input = line]
    ELSE /\ pc' = IF wiz.idx < Len(PLACEHOLDER_KEYS) THEN "w_field" ELSE "w_photo"
         /\ wiz' = [wiz EXCEPT !.input = line,
                               !.fields[PLACEHOLDER_KEYS[wiz.idx]] =
                                   [set |-> TRUE, text |-> r.val, pass |-> wiz.pass],
                               !.idx = IF wiz.idx < Len(PLACEHOLDER_KEYS) THEN wiz.idx + 1
                                       ELSE wiz.idx]

PromptField ==
    /\ pc = "w_field"
    /\ \E line \in FieldLines : FieldAnswer(line, prompt(line))
    /\ UNCHANGED <<caller, tpl, fields, photos, env, doc, cache, ins, fs, out, nruns, lb, args>>

\* lines 465-475 for one line read at the photo prompt
PhotoAnswer(line, r) ==
    IF r.interrupt THEN Cancelled(line)
    ELSE IF r.val = BACK THEN Restart(line)
    ELSE /\ pc' = "w_confirm"
         /\ wiz' = [wiz EXCEPT !.input = line,
                               !.photos = IF Strip(r.val) # <<>> THEN expand_photos_arg(r.val)
                                          ELSE wiz.cached]

PromptPhoto ==
    /\ pc = "w_photo"
    /\ \E line \in FieldLines : PhotoAnswer(line, prompt(line))
    /\ UNCHANGED <<caller, tpl, fields, photos, env, doc, cache, ins, fs, out, nruns, lb, args>>

\* lines 481-486: the confirmation is read with input(), not prompt()
Confirm ==
    /\ pc = "w_confirm"
    /\ \E line \in YesNoLines :
          /\ wiz' = [wiz EXCEPT !.input = line]
          /\ IF Lower(Strip(line)) # <<>> /\ Lower(Strip(line)) # <<"y">>
             THEN /\ pc' = "w_continue"
                  /\ UNCHANGED <<fields, photos, doc, ins, out, nruns, args>>
             ELSE /\ pc' = "gen"
                  /\ fields' = [k \in Keys |-> wiz.fields[k].text]
                  /\ photos' = wiz.photos
                  /\ doc' = EmptyDoc /\ ins' = NoIns /\ out' = NoOut
                  /\ nruns' = nruns + 1
    /\ UNCHANGED <<caller, tpl, env, cache, fs, lb, args>>

\* lines 491-494
Continue ==
    /\ pc = "w_continue"
    /\ \E line \in YesNoLines :
          IF Lower(Strip(line)) # <<"y">>
          THEN pc' = "w_exit" /\ wiz' = [wiz EXCEPT !.input = line, !.end = "ended"]
          ELSE Restart(line)
    /\ UNCHANGED <<caller, tpl, fields, photos, env, doc, cache, ins, fs, out, nruns, lb, args>>

InitWizard ==
    /\ pc = "w_field"
    /\ caller = "interactive"
    /\ \E t \in {PlainTemplate("keyword"), LackingTemplate} : tpl = [exists |-> TRUE, doc |-> t]
    /\ fields = [k \in Keys |-> <<>>]
    /\ photos = <<>>
    /\ env = [pil_ok |-> TRUE, want_pdf |-> FALSE]
    /\ doc = EmptyDoc
    /\ cache = EmptyCache
    /\ ins = NoIns
    /\ fs = {}
    /\ out = NoOut
    /\ nruns = 0
    /\ \E cached \in {<<>>, << [base |-> 2, kind |-> "ok", readable |-> TRUE] >>} :
          wiz = [WizIdle EXCEPT !.idx = 1, !.pass = 1, !.cached = cached]
    /\ lb = LbIdle
    /\ args = NoArgs

NextWizard == PromptField \/ PromptPhoto \/ Confirm \/ Continue \/ NextGen

SpecWizard == InitWizard /\ [][NextWizard]_vars

IsBackLine(line) == ~prompt(line).interrupt /\ prompt(line).val = BACK
IsCancelLine(line) == Upper(Strip(line)) = <<"Q">>
AtPrompt == pc \in {"w_field", "w_photo", "w_confirm", "w_continue"}

\* C6: "back" at the prompt of field i > 0 leads to the prompt of field
\* i - 1 with the values of the fields before it kept, and "back" at the
\* photo prompt leads to the prompt of the last field.
C6_Claim ==
    [][/\ (pc = "w_field" /\ wiz.idx > 1 /\ IsBackLine(wiz'.input)) =>
            /\ pc' = "w_field"
            /\ wiz'.idx = wiz.idx - 1
            /\ \A j \in 1..(wiz.idx - 2) :
                  wiz'.fields[PLACEHOLDER_KEYS[j]] = wiz.fields[PLACEHOLDER_KEYS[j]]
       /\ (pc = "w_photo" /\ IsBackLine(wiz'.input)) =>
            /\ pc' = "w_field"
            /\ wiz'.idx = Len(PLACEHOLDER_KEYS)]_vars

\* C7: an empty line at a field prompt leaves the wizard at the same prompt
\* with the same values, and every call of generate_report from the wizard
\* passes, for each key, a non-empty value typed in the current pass.
C7_NoSkip ==
    [][/\ (pc = "w_field" /\ Strip(wiz'.input) = <<>>) =>
            /\ pc' = "w_field"
            /\ wiz'.idx = wiz.idx
            /\ wiz'.fields = wiz.fields
            /\ wiz'.pass = wiz.pass
       /\ (pc = "w_confirm" /\ pc' = "gen") =>
            \A k \in Keys :
                /\ fields'[k] # <<>>
                /\ wiz.fields[k].set
                /\ wiz.fields[k].pass = wiz.pass
                /\ fields'[k] = wiz.fields[k].text]_vars

\* a report is being generated in a later pass, after a pass was abandoned
C7_Witness ==
    /\ pc = "gen" /\ caller = "interactive"
    /\ wiz.pass = 2 /\ nruns = 1
    /\ \A k \in Keys : fields[k] # <<>>

\* C8: "cancel" at any prompt ends the session at once, and a session ends
\* either cancelled by the user or after a submission: never otherwise.
C8_Claim ==
    [][/\ (AtPrompt /\ IsCancelLine(wiz'.input)) => pc' = "w_exit"
       /\ pc' # "crashed"]_vars

-----------------------------------------------------------------------------
(* _letterbox_image(img, CANVAS_SIZE, CANVAS_MARGIN).  lb = [w, h, rw, rh,   *)
(* ox, oy]: the size of img, the size of `resized`, and `offset`.            *)

\* The sizes of img the function is applied to: the widths are multiples of
\* 400 and the heights multiples of 300 up to LbMaxK times, and a few sizes
\* around the canvas and its inner area.  (_prepare_photo_for_word hands it
\* images it has reduced to target_px per side; the function itself takes
\* any size.)
LbMaxK == 10
LbWidths == {400 * k : k \in 1..LbMaxK} \cup {401, 2040, 2041, 2083, 2200}
LbHeights == {300 * k : k \in 1..LbMaxK} \cup {301, 1490, 1491, 1650, 2090}

Max(a, b) == IF a > b THEN a ELSE b

\* lines 193-194
target_w == Max(CANVAS_W - CANVAS_MARGIN * 2, 1)
target_h == Max(CANVAS_H - CANVAS_MARGIN * 2, 1)

\* faulty variant of Scale: min(target_w / w, target_h / h) without the 1.0
ScaleNoCap(w, h) ==
    IF target_w * h <= target_h * w THEN [num |-> target_w, den |-> w]
    ELSE [num |-> target_h, den |-> h]

\* line 195: min(target_w / w, target_h / h, 1.0) as the fraction num / den
Scale(w, h) ==
    IF w <= target_w /\ h <= target_h THEN [num |-> 1, den |-> 1]
    ELSE IF target_w * h <= target_h * w THEN [num |-> target_w, den |-> w]
    ELSE [num |-> target_h, den |-> h]

\* int(x * scale) for the float scale = num / den: the floor of the product;
\* when the exact product is a whole number and the quotient is not, the
\* float product can fall just below it (int(2083 * (2040 / 2083)) = 2039)
IntTimes(x, sc) ==
    IF sc.den = 1 THEN {x * sc.num}
    ELSE IF (x * sc.num) % sc.den = 0
         THEN {(x * sc.num) \div sc.den, (x * sc.num) \div sc.den - 1}
         ELSE {(x * sc.num) \div sc.den}

\* lines 196-198 for one outcome (rw, rh) of the resize
Pasted(w, h, rw, rh) ==
    [w |-> w, h |-> h, rw |-> rw, rh |-> rh,
     ox |-> (CANVAS_W - rw) \div 2, oy |-> (CANVAS_H - rh) \div 2]

_letterbox_image(w, h, sc) ==
    {Pasted(w, h, rw, rh) : rw \in IntTimes(w, sc), rh \in IntTimes(h, sc)}

Letterbox ==
    /\ pc = "lb_open"
    /\ lb' \in _letterbox_image(lb.w, lb.h, Scale(lb.w, lb.h))
    /\ pc' = "lb_done"
    /\ UNCHANGED <<caller, tpl, fields, photos, env, doc, cache, ins, fs, out, nruns, wiz, args>>

InitLetterbox ==
    /\ pc = "lb_open"
    /\ caller = "main"
    /\ tpl = [exists |-> FALSE, doc |-> EmptyDoc]
    /\ fields = [k \in Keys |-> <<>>]
    /\ photos = <<>>
    /\ env = [pil_ok |-> TRUE, want_pdf |-> FALSE]
    /\ doc = EmptyDoc
    /\ cache = EmptyCache
    /\ ins = NoIns
    /\ fs = {}
    /\ out = NoOut
    /\ nruns = 0
    /\ wiz = WizIdle
    /\ \E w \in LbWidths, h \in LbHeights : lb = [LbIdle EXCEPT !.w = w, !.h = h]
    /\ args = NoArgs

SpecLetterbox == InitLetterbox /\ [][Letterbox]_vars

\* the borders around the pasted image
LeftBorder == lb.ox
RightBorder == CANVAS_W - lb.rw - lb.ox
TopBorder == lb.oy
BottomBorder == CANVAS_H - lb.rh - lb.oy
NotUpscaled == lb.rw <= lb.w /\ lb.rh <= lb.h
FitsCanvas ==
    /\ LeftBorder >= 0 /\ RightBorder >= 0
    /\ TopBorder >= 0 /\ BottomBorder >= 0
Differ(a, b) == IF a > b THEN a - b ELSE b - a

\* C10 as stated: the image is never upscaled, it fits inside the canvas,
\* and a 4:3 image has the same border on both axes.
C10_Claim ==
    pc = "lb_done" =>
        /\ NotUpscaled
        /\ FitsCanvas
        /\ (lb.w * 3 = lb.h * 4) =>
              /\ LeftBorder = TopBorder
              /\ RightBorder = BottomBorder

\* C10, amended: the image is never upscaled (an image that fits the inner
\* area keeps its size, a larger one is reduced until one side reaches the
\* inner area), it lies inside the canvas with at least the margin on every
\* side, and it is centred on each axis: opposite borders differ by at most
\* one pixel.  The borders of the two axes differ in general.
C10_Letterbox ==
    pc = "lb_done" =>
        /\ NotUpscaled
        /\ (lb.w <= target_w /\ lb.h <= target_h) => (lb.rw = lb.w /\ lb.rh = lb.h)
        /\ (lb.w > target_w \/ lb.h > target_h) =>
              (lb.rw >= target_w - 1 \/ lb.rh >= target_h - 1)
        /\ FitsCanvas
        /\ LeftBorder >= CANVAS_MARGIN /\ RightBorder >= CANVAS_MARGIN
        /\ TopBorder >= CANVAS_MARGIN /\ BottomBorder >= CANVAS_MARGIN
        /\ Differ(LeftBorder, RightBorder) <= 1
        /\ Differ(TopBorder, BottomBorder) <= 1

\* a 4:3 image larger than the inner area was reduced and pasted, and its
\* horizontal and vertical borders differ
C10_Witness ==
    /\ pc = "lb_done"
    /\ lb.w * 3 = lb.h * 4
    /\ lb.w > target_w
    /\ lb.rw < lb.w
    /\ LeftBorder # TopBorder

-----------------------------------------------------------------------------
(* main(): the command line.  args holds the options --customer, --industry, *)
(* --address, --photos and --set-photos (absent, or present with a value)    *)
(* and the flags --no-photos, --check-template, --pdf and --interactive;     *)
(* --pdf stands for the flags that change nothing in main (--open,           *)
(* --reveal, --debug).  wiz.cached is what the default photo directory       *)
(* holds.                                                                    *)

\* faulty variant of Truthy: an option counts as soon as it is present
TruthyIfPresent(o) == o.present

\* `if value`: the option is present and its value is not the empty string
Truthy(o) == o.present /\ o.val # <<>>

\* args.customer, args.industry, args.address by key
ArgOf(a, k) ==
    CASE k = "customer" -> a.customer [] k = "industry" -> a.industry [] OTHER -> a.address

\* lines 537-545: the keys whose value is not truthy, in order
RECURSIVE MissingArgsFrom(_, _)
MissingArgsFrom(a, i) ==
    IF i > Len(PLACEHOLDER_KEYS) THEN <<>>
    ELSE IF ~Truthy(ArgOf(a, PLACEHOLDER_KEYS[i]))
         THEN <<PLACEHOLDER_KEYS[i]>> \o MissingArgsFrom(a, i + 1)
         ELSE MissingArgsFrom(a, i + 1)
MissingArgs(a) == MissingArgsFrom(a, 1)

\* lines 555-559
PhotosOf(a, default) ==
    IF a.no_photos THEN <<>>
    ELSE IF Truthy(a.photos) THEN expand_photos_arg(a.photos.val)
    ELSE default

\* lines 517-522: save_config writes the configuration file only
SetPhotos ==
    /\ pc' = "set_done"
    /\ UNCHANGED <<caller, fields, photos, env, out, nruns, wiz, args>>

\* lines 524-531: inspect_template_placeholders raises when the template
\* does not exist
CheckTemplate ==
    /\ IF ~tpl.exists THEN Raise("FileNotFoundError", <<>>)
       ELSE pc' = "check_done" /\ out' = out
    /\ UNCHANGED <<caller, fields, photos, env, nruns, wiz, args>>

\* lines 533-535 and 437-444 (args = NoArgs is len(sys.argv) == 1): main
\* reads args no more
EnterInteractive ==
    /\ pc' = "w_field"
    /\ caller' = "interactive"
    /\ wiz' = [wiz EXCEPT !.idx = 1, !.pass = 1]
    /\ args' = [NoArgs EXCEPT !.interactive = args.interactive]
    /\ UNCHANGED <<fields, photos, env, out, nruns>>

\* lines 546-547
UsageError(missing) ==
    /\ pc' = "usage_error"
    /\ out' = [out EXCEPT !.error = "SystemExit", !.missing = missing]
    /\ UNCHANGED <<caller, fields, photos, env, nruns, wiz, args>>

\* lines 549-568
CallGenerate ==
    /\ pc' = "gen"
    /\ fields' = [k \in Keys |-> Strip(ArgOf(args, k).val)]
    /\ photos' = PhotosOf(args, wiz.cached)
    /\ env' = [env EXCEPT !.want_pdf = args.pdf]
    /\ nruns' = nruns + 1
    /\ UNCHANGED <<caller, out, wiz, args>>

Main ==
    /\ pc = "main"
    /\ IF Truthy(args.set_photos) THEN SetPhotos
       ELSE IF args.check_template THEN CheckTemplate
       ELSE IF args = NoArgs \/ args.interactive THEN EnterInteractive
       ELSE IF MissingArgs(args) # <<>> THEN UsageError(MissingArgs(args))
       ELSE CallGenerate
    /\ UNCHANGED <<tpl, doc, cache, ins, fs, lb>>

\* the command lines: --customer, --industry and --address are absent, empty,
\* blank or hold a name
CommandLines ==
    [customer : {Absent, Given(<<>>), Given(<<" ">>), Given(<<" ", "a">>)},
     industry : {Absent, Given(<<>>), Given(<<" ">>), Given(<<" ", "a">>)},
     address : {Absent, Given(<<>>), Given(<<" ">>), Given(<<" ", "a">>)},
     photos : {Absent, Given(<<"a">>)},
     set_photos : {Absent, Given(<<>>), Given(<<"a">>)},
     no_photos : BOOLEAN, check_template : BOOLEAN, pdf : BOOLEAN, interactive : BOOLEAN]

InitMain ==
    /\ pc = "main"
    /\ caller = "main"
    /\ \E exists \in BOOLEAN : tpl = [exists |-> exists, doc |-> PlainTemplate("keyword")]
    /\ fields = [k \in Keys |-> <<>>]
    /\ photos = <<>>
    /\ env = [pil_ok |-> TRUE, want_pdf |-> FALSE]
    /\ doc = EmptyDoc
    /\ cache = EmptyCache
    /\ ins = NoIns
    /\ fs = {}
    /\ out = NoOut
    /\ nruns = 0
    /\ \E cached \in {<<>>, << [base |-> 2, kind |-> "ok", readable |-> TRUE] >>} :
          wiz = [WizIdle EXCEPT !.cached = cached]
    /\ lb = LbIdle
    /\ args \in CommandLines

NextMain == Main \/ NextWizard

SpecMain == InitMain /\ [][NextMain]_vars

\* the run is non-interactive: arguments were given, without --interactive,
\* --set-photos or --check-template
NonInteractiveRun ==
    /\ args # NoArgs
    /\ ~args.interactive
    /\ ~args.set_photos.present
    /\ ~args.check_template
ValueMissing(o) == ~o.present \/ o.val = <<>>
SomeValueMissing == \E k \in Keys : ValueMissing(ArgOf(args, k))

\* C11: a non-interactive run in which one of the three values is missing
\* ends with the usage error, which lists the missing keys and no other, each
\* once, and generate_report is not called, then or later; a run without any
\* argument enters interactive mode.
C11_UsageError ==
    [][/\ (pc = "main" /\ NonInteractiveRun /\ SomeValueMissing) =>
            /\ pc' = "usage_error"
            /\ out'.error = "SystemExit"
            /\ \A k \in Keys :
                  ValueMissing(ArgOf(args, k)) <=> (\E i \in 1..Len(out'.missing) : out'.missing[i] = k)
            /\ Len(out'.missing) = Cardinality({k \in Keys : ValueMissing(ArgOf(args, k))})
            /\ nruns' = 0
       /\ (pc = "usage_error") => (pc' = "usage_error" /\ nruns' = 0)
       /\ (pc = "main" /\ args = NoArgs) =>
            (pc' = "w_field" /\ caller' = "interactive" /\ wiz'.idx = 1 /\ nruns' = 0)]_vars

\* the usage error after --industry alone was given, with --customer absent
\* and --address empty
C11_Witness ==
    /\ pc = "usage_error"
    /\ ~args.customer.present
    /\ args.industry = Given(<<" ", "a">>)
    /\ args.address = Given(<<>>)
    /\ out.missing = <<"customer", "address">>
    /\ nruns = 0

-----------------------------------------------------------------------------
(* Runs that differ in where the template holds photo tokens and the section *)
(* keyword: after the keys' paragraphs the body holds a table with one cell  *)
(* of two paragraphs, then two more body paragraphs.                         *)

AnchorParaKinds == {"plain", "keyword", "token"}

AnchorPara(kind) ==
    CASE kind = "token" -> Para(<< <<"a">> \o PhotoToken("photo") >>)
      [] kind = "keyword" -> Para(<< <<"KW", ":">> >>)
      [] OTHER -> Para(<< <<"b">> >>)

AnchorTemplate(c1, c2, b1, b2) ==
    [body |-> PlainTemplate("none").body
              \o << Table(<< << <<AnchorPara(c1), AnchorPara(c2)>> >> >>) >>
              \o << AnchorPara(b1), AnchorPara(b2) >>]

\* photo i under its own base name, there or missing
AnchorPhotos ==
    {[i \in 1..Len(ks) |-> [base |-> i, kind |-> ks[i], readable |-> TRUE]] :
        ks \in SeqsUpTo({"ok", "missing"}, MaxPhotos)}

InitAnchor ==
    \E c1 \in AnchorParaKinds, c2 \in AnchorParaKinds,
       b1 \in AnchorParaKinds, b2 \in AnchorParaKinds,
       phs \in AnchorPhotos, pil \in BOOLEAN :
        GenStart(AnchorTemplate(c1, c2, b1, b2), TRUE, PlainValues, phs, pil, FALSE, {})

SpecAnchor == InitAnchor /\ [][NextGen]_vars

\* paragraph a comes before paragraph b: the body's paragraphs in body order,
\* then the paragraphs of the table cells in document order
ComesBefore(a, b) ==
    \/ IsBodyLoc(a) /\ ~IsBodyLoc(b)
    \/ IsBodyLoc(a) /\ IsBodyLoc(b) /\ a[1] < b[1]
    \/ /\ ~IsBodyLoc(a) /\ ~IsBodyLoc(b)
       /\ \E n \in 1..4 : a[n] < b[n] /\ \A m \in 1..(n - 1) : a[m] = b[m]

ParaLocs(d) == {IterParagraphs(d)[n] : n \in 1..Len(IterParagraphs(d))}
TokenLocs(d) == {loc \in ParaLocs(d) : HasPhotoToken(ParaText(ParaAt(d, loc)))}
KeywordLocs(d) == {loc \in ParaLocs(d) : HasSectionKeyword(ParaText(ParaAt(d, loc)))}
FirstOf(locs, a) == a \in locs /\ \A b \in locs : ~ComesBefore(b, a)

\* the anchor a of insert_photos on the document d, d1 the document afterwards
AnchorAsStated(d, d1, a) ==
    IF TokenLocs(d) # {} THEN FirstOf(TokenLocs(d), a)
    ELSE IF KeywordLocs(d) # {} THEN FirstOf(KeywordLocs(d), a)
    ELSE /\ a = <<Len(d.body) + 1, 0, 0, 0>>
         /\ SubSeq(d1.body, 1, Len(d.body)) = d.body
         /\ d1.body[Len(d.body) + 1].t = "p"

\* the file row r of table g shows
RowPath(tb, r) == [k |-> tb.rows[r][1][1].obj.form, id |-> tb.rows[r][1][1].obj.id]

\* els, the elements after the anchor: photo k (from 0) of `processed` is in
\* row k mod 2 of the table number k div 2 + 1, the tables alternate with
\* page breaks, and `rest`, what followed the anchor before, comes after
\* the last table
PhotosAsStated(els, processed, rest) ==
    /\ BatchShape(els, Len(processed), (Len(processed) + 1) \div 2)
    /\ \A k \in 0..(Len(processed) - 1) :
          /\ els[2 * (k \div 2) + 1].rows[(k % 2) + 1][1][1].obj.k \in {"pic", "notice"}
          /\ RowPath(els[2 * (k \div 2) + 1], (k % 2) + 1) = processed[k + 1].path
    /\ SubSeq(els, 2 * ((Len(processed) + 1) \div 2), Len(els)) = rest

RestAfter(d, a) == IF a[1] > Len(d.body) THEN <<>> ELSE AfterAnchor(d, a)

\* C12: when a photo was prepared, the anchor is the first paragraph with a
\* photo token (body paragraphs before cell paragraphs), else the first with
\* the section keyword, else a paragraph appended to the body; right after
\* the anchor come table 1, page break, table 2, ..., last table, and
\* prepared photo k (from 0) is in row k mod 2 of table k div 2 + 1.
C12_AnchorAndOrder ==
    [][(pc = "replaced" /\ pc' = "inserted" /\ ins'.processed # <<>>) =>
          /\ AnchorAsStated(doc, doc', ins'.anchor)
          /\ PhotosAsStated(AfterAnchor(doc', ins'.anchor), ins'.processed,
                            RestAfter(doc, ins'.anchor))]_vars

\* three photos were placed after a body paragraph with a token, although a
\* cell of a table earlier in the body holds a token and the paragraph after
\* the anchor holds the keyword
C12_Witness ==
    /\ pc = "inserted"
    /\ Len(ins.processed) = 3
    /\ IsBodyLoc(ins.anchor)
    /\ \E loc \in TokenLocs(tpl.doc) : ~IsBodyLoc(loc) /\ loc[1] < ins.anchor[1]
    /\ Len(doc.body) = ins.anchor[1] + 4
    /\ HasSectionKeyword(ParaText(doc.body[ins.anchor[1] + 4]))

=============================================================================
